---- MODULE Spec2Model ----
(***************************************************************************)
(* Model of trackPlayer (LaserTag2020/src/dataOut/trackPlayer.cpp): an     *)
(* audio player that drives the external `afplay` binary as a background   *)
(* process, finds its process id with `pgrep -n afplay`, and controls it   *)
(* with signals.                                                           *)
(*                                                                         *)
(* The component's fields are the variables named as in trackPlayer.h.     *)
(* The environment is the host's process table (procs, nextPid) and the    *)
(* clock (now).  Two variables record what the component did to the host:  *)
(* spawned, the processes it launched that are still in the table, and     *)
(* started, whether it has launched one at all.  `last` records the most   *)
(* recent call of a public operation: its name, argument, return value and *)
(* the trace of system calls it made; last.seq flips at every call, so a   *)
(* step is a call exactly when it changes last.seq.                        *)
(***************************************************************************)
EXTENDS Integers, Sequences, FiniteSets, TLC

\* ------------------------------------------------------------------ bounds
MaxPid       == 2      \* process ids the host hands out in one behaviour
MaxTime      == 2      \* last clock tick
TicksPerUnit == 1      \* clock ticks per time unit (second) of ofGetElapsedTimef

\* ------------------------------------------------------------ input sets
\* A file is a record: name (its rank in path order) and extension.
File(n, e) == [name |-> n, ext |-> e]

\* The directories loadTracks is called with.
Dirs ==
  { {},
    { File(2, "wav"), File(1, "png") },
    { File(3, "mp3"), File(1, "m4a"), File(2, "txt"), File(4, "aiff") } }

TrackArgs == { -1, 0, 2, 3 }    \* arguments of playTrack
VolArgs   == { -5, 80, 150 }     \* arguments of setVolume
PitchVals == { 50, 100 }        \* pitch in hundredths (100 is 1.0)
PctVals   == { 0, 100 }         \* updatePitch factors in hundredths

Pids == 1 .. MaxPid

VARIABLES
  whichTrack, numTracks, DLIST,          \* catalog
  audioProcessPid, isPaused, playStartTime, \* session
  currentVolume, targetPitch, currentPitch, \* settings
  procs, nextPid,                        \* host process table
  spawned, started,                      \* what this component launched
  now,                                   \* ofGetElapsedTimef, in ticks
  last                                   \* the most recent call

vars == << whichTrack, numTracks, DLIST, audioProcessPid, isPaused,
           playStartTime, currentVolume, targetPitch, currentPitch,
           procs, nextPid, spawned, started, now, last >>

\* The component's fields, the process table and the call's trace as one value.
Cur ==
  [ whichTrack |-> whichTrack, numTracks |-> numTracks, DLIST |-> DLIST,
    audioProcessPid |-> audioProcessPid, isPaused |-> isPaused,
    playStartTime |-> playStartTime, currentVolume |-> currentVolume,
    targetPitch |-> targetPitch, currentPitch |-> currentPitch,
    procs |-> procs, nextPid |-> nextPid,
    spawned |-> spawned, started |-> started,
    log |-> << >> ]

\* The fields of trackPlayer alone.
Fields(s) ==
  [ whichTrack |-> s.whichTrack, numTracks |-> s.numTracks, DLIST |-> s.DLIST,
    audioProcessPid |-> s.audioProcessPid, isPaused |-> s.isPaused,
    playStartTime |-> s.playStartTime, currentVolume |-> s.currentVolume,
    targetPitch |-> s.targetPitch, currentPitch |-> s.currentPitch ]

NoFile == File(0, "")

\* One entry of a call's trace: a system call and the process id it names.
Ev(e, p) == [ev |-> e, pid |-> p, file |-> NoFile, vol |-> 0]

\* ------------------------------------------------------- host semantics
\* kill(2): a signal to an id with no process changes nothing (ESRCH).
\* SIGTERM ends a running afplay and stays pending on a stopped one;
\* SIGKILL ends it in either state.
Deliver(state, sig) ==
  CASE state = "free"                        -> "free"
    [] sig = "SIGKILL"                       -> "free"
    [] sig = "SIGTERM" /\ state = "running"  -> "free"
    [] sig = "SIGSTOP" /\ state = "running"  -> "stopped"
    [] sig = "SIGCONT" /\ state = "stopped"  -> "running"
    [] OTHER                                 -> state

Kill(s, p, sig) ==
  LET gone == p \in Pids /\ Deliver(s.procs[p], sig) = "free"
  IN  [ s EXCEPT !.procs   = IF p \in Pids
                               THEN [ @ EXCEPT ![p] = Deliver(@, sig) ]
                               ELSE @,
                 !.spawned = IF gone THEN @ \ { p } ELSE @,
                 !.log     = Append(@, Ev(sig, p)) ]

\* The processes that are children of this process.  system() runs the
\* command line through a shell and waits for the shell; the trailing '&'
\* makes the shell start afplay in the background, so afplay is a child of
\* the shell, never of this process.
Children(s) == {}

\* waitpid(p, _, WNOHANG): p when p is a child that has exited, 0 when p is a
\* child still running, -1 (ECHILD) when p is not a child of the caller.
Waitpid(s, p) ==
  IF p \in Children(s)
    THEN IF s.procs[p] = "free" THEN p ELSE 0
    ELSE -1

SetMax(S) == CHOOSE x \in S : \A y \in S : y <= x

\* pgrep -n afplay: the newest afplay process in the table, if any.
\* `seen` tells whether the process just launched is already in the table.
Pgrep(s, new, seen) ==
  LET vis == { p \in Pids : s.procs[p] # "free" /\ (p # new \/ seen) }
  IN  IF vis = {} THEN 0 ELSE SetMax(vis)

\* system("afplay -v <vol> \"<path>\" &"): the shell starts one new afplay
\* process in the background and returns.  The trace notes, before the launch,
\* the process id the component has recorded at that moment ("owns").
System(s, filepath) ==
  LET new == s.nextPid
  IN  [ s EXCEPT !.procs   = IF new \in Pids THEN [ @ EXCEPT ![new] = "running" ]
                                              ELSE @,
                 !.spawned = @ \cup { new },
                 !.started = TRUE,
                 !.nextPid = @ + 1,
                 !.log     = Append(Append(@, Ev("owns", s.audioProcessPid)),
                                    [ ev |-> "launch", pid |-> new,
                                      file |-> filepath,
                                      vol |-> s.currentVolume ]) ]

\* ofDirectory: allowExt keeps the files with an allowed extension, listDir
\* lists them in the order the file system yields them, sort orders by path.
AllowExt == { "mp3", "wav", "aiff", "m4a" }

RECURSIVE ListDir(_)
ListDir(dir) ==
  IF dir = {} THEN << >>
  ELSE LET f == CHOOSE x \in dir : \A y \in dir : y.name <= x.name
       IN  << f >> \o ListDir(dir \ { f })

Sort(seq) == SortSeq(seq, LAMBDA a, b : a.name < b.name)

\* ------------------------------------------------------------ trackPlayer
DebounceUnits == 1

\* killAudioProcess that sends the signals and keeps the id recorded.
killAudioProcess_keepsPid(s) ==
  IF s.audioProcessPid > 0
    THEN LET p  == s.audioProcessPid
             s1 == Kill(s, p, "SIGTERM")
             s2 == Kill(s1, p, "SIGKILL")
         IN  [ s2 EXCEPT !.log = Append(@, Ev("waitpid", p)) ]
    ELSE s

\* killAudioProcess that forces the kill before asking the process to stop.
killAudioProcess_killFirst(s) ==
  IF s.audioProcessPid > 0
    THEN LET p  == s.audioProcessPid
             s1 == Kill(s, p, "SIGKILL")
             s2 == Kill(s1, p, "SIGTERM")
             s3 == [ s2 EXCEPT !.log = Append(@, Ev("waitpid", p)) ]
         IN  [ s3 EXCEPT !.audioProcessPid = 0 ]
    ELSE s

\* killAudioProcess that accepts the id 0 as a recorded process.
killAudioProcess_zeroPid(s) ==
  IF s.audioProcessPid >= 0
    THEN LET p  == s.audioProcessPid
             s1 == Kill(s, p, "SIGTERM")
             s2 == Kill(s1, p, "SIGKILL")
             s3 == [ s2 EXCEPT !.log = Append(@, Ev("waitpid", p)) ]
         IN  [ s3 EXCEPT !.audioProcessPid = 0 ]
    ELSE s

killAudioProcess(s) ==
  IF s.audioProcessPid > 0
    THEN LET p  == s.audioProcessPid
             s1 == Kill(s, p, "SIGTERM")
             s2 == Kill(s1, p, "SIGKILL")
             s3 == [ s2 EXCEPT !.log = Append(@, Ev("waitpid", p)) ]
         IN  [ s3 EXCEPT !.audioProcessPid = 0 ]
    ELSE s

\* spawnAudioProcess that records the start time after the discovery step.
spawnAudioProcess_stampLate(s, filepath, t, seen) ==
  LET s1    == killAudioProcess(s)
      new   == s1.nextPid
      s2    == System(s1, filepath)
      found == Pgrep(s2, new, seen)
      s3    == [ s2 EXCEPT !.log = Append(@, Ev("pgrep", found)),
                           !.audioProcessPid = IF found # 0 THEN found ELSE @ ]
      s4    == [ s3 EXCEPT !.playStartTime = t,
                           !.log = Append(@, Ev("stamp", 0)) ]
  IN  [ s4 EXCEPT !.isPaused = FALSE ]

\* spawnAudioProcess that leaves the paused flag as it was.
spawnAudioProcess_keepsPaused(s, filepath, t, seen) ==
  LET s1    == killAudioProcess(s)
      s2    == [ s1 EXCEPT !.playStartTime = t,
                           !.log = Append(@, Ev("stamp", 0)) ]
      new   == s2.nextPid
      s3    == System(s2, filepath)
      found == Pgrep(s3, new, seen)
  IN  [ s3 EXCEPT !.log = Append(@, Ev("pgrep", found)),
                  !.audioProcessPid = IF found # 0 THEN found ELSE @ ]

spawnAudioProcess(s, filepath, t, seen) ==
  LET s1    == killAudioProcess(s)
      s2    == [ s1 EXCEPT !.playStartTime = t,
                           !.log = Append(@, Ev("stamp", 0)) ]
      new   == s2.nextPid
      s3    == System(s2, filepath)
      found == Pgrep(s3, new, seen)
      s4    == [ s3 EXCEPT !.log = Append(@, Ev("pgrep", found)),
                           !.audioProcessPid = IF found # 0 THEN found ELSE @ ]
  IN  [ s4 EXCEPT !.isPaused = FALSE ]

\* loadTracks without the call of sort.
loadTracks_unsorted(s, dir) ==
  LET listed == ListDir({ f \in dir : f.ext \in AllowExt })
  IN  [ s EXCEPT !.numTracks = Len(listed), !.DLIST = listed ]

loadTracks(s, dir) ==
  LET listed == ListDir({ f \in dir : f.ext \in AllowExt })
  IN  [ s EXCEPT !.numTracks = Len(listed), !.DLIST = Sort(listed) ]

\* playTrack that tests the index with > and does not test for an empty
\* catalog; an index past the end yields no path.
playTrack_noEmptyCheck(s, _whichTrack, t, seen) ==
  IF _whichTrack > s.numTracks \/ _whichTrack < 0
    THEN [ s |-> s, ret |-> FALSE ]
    ELSE LET s1   == [ s EXCEPT !.whichTrack = _whichTrack,
                                !.targetPitch = 100, !.currentPitch = 100 ]
             path == IF _whichTrack < s.numTracks
                       THEN s1.DLIST[_whichTrack + 1] ELSE NoFile
         IN  [ s |-> spawnAudioProcess(s1, path, t, seen), ret |-> TRUE ]

\* playTrack with the index stored before it is validated.
playTrack_storesFirst(s, _whichTrack, t, seen) ==
  LET s1 == [ s EXCEPT !.whichTrack = _whichTrack ]
  IN  IF s.numTracks = 0 \/ _whichTrack >= s.numTracks \/ _whichTrack < 0
        THEN [ s |-> s1, ret |-> FALSE ]
        ELSE LET s2 == [ s1 EXCEPT !.targetPitch = 100, !.currentPitch = 100 ]
             IN  [ s   |-> spawnAudioProcess(s2, s2.DLIST[s2.whichTrack + 1], t, seen),
                   ret |-> TRUE ]

\* The operations that return a value yield [s |-> state, ret |-> value].
playTrack(s, _whichTrack, t, seen) ==
  IF s.numTracks = 0 \/ _whichTrack >= s.numTracks \/ _whichTrack < 0
    THEN [ s |-> s, ret |-> FALSE ]
    ELSE LET s1 == [ s EXCEPT !.whichTrack = _whichTrack,
                              !.targetPitch = 100, !.currentPitch = 100 ]
         IN  [ s   |-> spawnAudioProcess(s1, s1.DLIST[s1.whichTrack + 1], t, seen),
               ret |-> TRUE ]

\* pause that accepts the id 0 as a recorded process.
pause_zeroPid(s) ==
  IF s.audioProcessPid >= 0 /\ ~s.isPaused
    THEN [ Kill(s, s.audioProcessPid, "SIGSTOP") EXCEPT !.isPaused = TRUE ]
    ELSE s

pause(s) ==
  IF s.audioProcessPid > 0 /\ ~s.isPaused
    THEN [ Kill(s, s.audioProcessPid, "SIGSTOP") EXCEPT !.isPaused = TRUE ]
    ELSE s

\* unPause that sends the signal and forgets to clear the flag.
unPause_keepsFlag(s) ==
  IF s.audioProcessPid > 0 /\ s.isPaused
    THEN Kill(s, s.audioProcessPid, "SIGCONT")
    ELSE s

unPause(s) ==
  IF s.audioProcessPid > 0 /\ s.isPaused
    THEN [ Kill(s, s.audioProcessPid, "SIGCONT") EXCEPT !.isPaused = FALSE ]
    ELSE s

InDebounce(s, t) ==
  s.playStartTime > 0 /\ (t - s.playStartTime) < DebounceUnits * TicksPerUnit

\* getFinished without the debounce window.
getFinished_noDebounce(s, t) ==
  IF s.audioProcessPid <= 0 THEN [ s |-> s, ret |-> TRUE ]
  ELSE LET p      == s.audioProcessPid
           result == Waitpid(s, p)
           s1     == [ s EXCEPT !.log = Append(@, Ev("waitpid", p)) ]
       IN  IF result = p
             THEN [ s |-> [ s1 EXCEPT !.audioProcessPid = 0 ], ret |-> TRUE ]
             ELSE [ s |-> s1, ret |-> FALSE ]

getFinished(s, t) ==
  IF InDebounce(s, t) THEN [ s |-> s, ret |-> FALSE ]
  ELSE IF s.audioProcessPid <= 0 THEN [ s |-> s, ret |-> TRUE ]
  ELSE LET p      == s.audioProcessPid
           result == Waitpid(s, p)
           s1     == [ s EXCEPT !.log = Append(@, Ev("waitpid", p)) ]
       IN  IF result = p
             THEN [ s |-> [ s1 EXCEPT !.audioProcessPid = 0 ], ret |-> TRUE ]
             ELSE [ s |-> s1, ret |-> FALSE ]

\* nextTrack that wraps one index too late.
nextTrack_lateWrap(s, t, seen) ==
  LET s1 == [ s EXCEPT !.whichTrack = @ + 1 ]
      s2 == IF s1.whichTrack > s1.numTracks
              THEN [ s1 EXCEPT !.whichTrack = 0 ] ELSE s1
      r  == playTrack(s2, s2.whichTrack, t, seen)
  IN  [ s |-> r.s, ret |-> r.s.whichTrack ]

nextTrack(s, t, seen) ==
  LET s1 == [ s EXCEPT !.whichTrack = @ + 1 ]
      s2 == IF s1.whichTrack >= s1.numTracks
              THEN [ s1 EXCEPT !.whichTrack = 0 ] ELSE s1
      r  == playTrack(s2, s2.whichTrack, t, seen)
  IN  [ s |-> r.s, ret |-> r.s.whichTrack ]

prevTrack(s, t, seen) ==
  LET s1 == [ s EXCEPT !.whichTrack = @ - 1 ]
      s2 == IF s1.whichTrack < 0
              THEN [ s1 EXCEPT !.whichTrack = s1.numTracks - 1 ] ELSE s1
      r  == playTrack(s2, s2.whichTrack, t, seen)
  IN  [ s |-> r.s, ret |-> r.s.whichTrack ]

\* The clamp without its upper limit.
Clamp_noUpper(vol) == IF vol < 0 THEN 0 ELSE vol

Clamp(vol) == IF vol > 100 THEN 100 ELSE IF vol < 0 THEN 0 ELSE vol

\* setVolume that restarts the session whether or not the value changed.
setVolume_alwaysRestarts(s, vol, t, seen) ==
  LET newVol == Clamp(vol)
  IN  IF s.audioProcessPid > 0 /\ s.whichTrack >= 0
        THEN playTrack([ s EXCEPT !.currentVolume = newVol ], s.whichTrack, t, seen).s
        ELSE [ s EXCEPT !.currentVolume = newVol ]

setVolume(s, vol, t, seen) ==
  LET newVol == Clamp(vol)
  IN  IF newVol # s.currentVolume /\ s.audioProcessPid > 0 /\ s.whichTrack >= 0
        THEN playTrack([ s EXCEPT !.currentVolume = newVol ], s.whichTrack, t, seen).s
        ELSE [ s EXCEPT !.currentVolume = newVol ]

setPitch(s, pitch) == [ s EXCEPT !.currentPitch = pitch ]

updatePitch(s, pct) ==
  [ s EXCEPT !.currentPitch = (@ * pct) \div 100 + (100 - pct) ]

\* shiftPos that ends the session in order to seek.
shiftPos_endsSession(s, posAdj) == killAudioProcess(s)

shiftPos(s, posAdj) == s

stop(s) == killAudioProcess(s)

\* ------------------------------------------------------------ the machine
\* The constructor.  targetPitch and currentPitch are not initialised by it:
\* they hold whatever the memory held.  The clock counts from application
\* start, and the player is constructed after it, so it reads a positive time.
Init ==
  /\ whichTrack = -1
  /\ numTracks = 0
  /\ DLIST = << >>
  /\ audioProcessPid = 0
  /\ currentVolume = 80
  /\ isPaused = FALSE
  /\ playStartTime = 0
  /\ targetPitch \in PitchVals
  /\ currentPitch \in PitchVals
  /\ procs = [ p \in Pids |-> "free" ]
  /\ nextPid = 1
  /\ spawned = {}
  /\ started = FALSE
  /\ now = 1
  /\ last = [ name |-> "new", arg |-> 0, ret |-> 0, log |-> << >>, seq |-> 0 ]

\* A call of a public operation: r is the state it leaves, ret what it returns.
\* No operation is called on a player that has been destroyed.
\* A call that would need more process ids than the model has is left out.
\* `seen` is the outcome of the discovery step; a call that launches nothing
\* has no discovery step, and is taken once (with seen = TRUE).
Call(name, arg, r, ret, seen) ==
  /\ last.name # "~trackPlayer"
  /\ r.nextPid <= MaxPid + 1
  /\ seen \/ r.nextPid # nextPid
  /\ whichTrack' = r.whichTrack
  /\ numTracks' = r.numTracks
  /\ DLIST' = r.DLIST
  /\ audioProcessPid' = r.audioProcessPid
  /\ isPaused' = r.isPaused
  /\ playStartTime' = r.playStartTime
  /\ currentVolume' = r.currentVolume
  /\ targetPitch' = r.targetPitch
  /\ currentPitch' = r.currentPitch
  /\ procs' = r.procs
  /\ nextPid' = r.nextPid
  /\ spawned' = r.spawned
  /\ started' = r.started
  /\ now' = now
  /\ last' = [ name |-> name, arg |-> arg, ret |-> ret, log |-> r.log,
               seq |-> 1 - last.seq ]

LoadTracks ==
  \E dir \in Dirs :
    LET r == loadTracks(Cur, dir) IN Call("loadTracks", dir, r, r.numTracks, TRUE)

PlayTrack ==
  \E i \in TrackArgs, seen \in BOOLEAN :
    LET r == playTrack(Cur, i, now, seen) IN Call("playTrack", i, r.s, r.ret, seen)

NextTrack ==
  \E seen \in BOOLEAN :
    LET r == nextTrack(Cur, now, seen) IN Call("nextTrack", 0, r.s, r.ret, seen)

PrevTrack ==
  \E seen \in BOOLEAN :
    LET r == prevTrack(Cur, now, seen) IN Call("prevTrack", 0, r.s, r.ret, seen)

SetVolume ==
  \E vol \in VolArgs, seen \in BOOLEAN :
    Call("setVolume", vol, setVolume(Cur, vol, now, seen), 0, seen)

Pause == Call("pause", 0, pause(Cur), 0, TRUE)

UnPause == Call("unPause", 0, unPause(Cur), 0, TRUE)

GetFinished ==
  LET r == getFinished(Cur, now) IN Call("getFinished", 0, r.s, r.ret, TRUE)

SetPitch == \E pitch \in PitchVals : Call("setPitch", pitch, setPitch(Cur, pitch), 0, TRUE)

UpdatePitch == \E pct \in PctVals : Call("updatePitch", pct, updatePitch(Cur, pct), 0, TRUE)

ShiftPos == Call("shiftPos", 0, shiftPos(Cur, 0), 0, TRUE)

Stop == Call("stop", 0, stop(Cur), 0, TRUE)

\* The destructor.
Destroy == Call("~trackPlayer", 0, killAudioProcess(Cur), 0, TRUE)

\* ---- the environment
EnvUnchanged ==
  UNCHANGED << whichTrack, numTracks, DLIST, audioProcessPid, isPaused,
               playStartTime, currentVolume, targetPitch, currentPitch,
               started, last >>

\* The clock advances.
Tick ==
  /\ now < MaxTime
  /\ now' = now + 1
  /\ UNCHANGED << procs, nextPid, spawned >>
  /\ EnvUnchanged

\* A running afplay reaches the end of its file (or fails) and exits.  It is
\* not a child of this process, so it leaves the table at once.
ProcExit ==
  \E p \in Pids :
    /\ procs[p] = "running"
    /\ procs' = [ procs EXCEPT ![p] = "free" ]
    /\ spawned' = spawned \ { p }
    /\ UNCHANGED << nextPid, now >>
    /\ EnvUnchanged

\* Some other program on the host starts an afplay of its own.
OtherAfplay ==
  /\ nextPid <= MaxPid
  /\ procs' = [ procs EXCEPT ![nextPid] = "running" ]
  /\ nextPid' = nextPid + 1
  /\ UNCHANGED << spawned, now >>
  /\ EnvUnchanged

\* The playback operations and the environment.
Next ==
  \/ LoadTracks \/ PlayTrack \/ NextTrack \/ PrevTrack \/ SetVolume
  \/ Pause \/ UnPause \/ GetFinished \/ Stop \/ Destroy
  \/ Tick \/ ProcExit \/ OtherAfplay

Spec == Init /\ [][Next]_vars

\* The pitch and seek operations, among the operations that create, pause
\* and end sessions.
PitchNext ==
  \/ SetPitch \/ UpdatePitch \/ ShiftPos
  \/ LoadTracks \/ PlayTrack \/ Pause \/ UnPause \/ Stop \/ ProcExit

PitchSpec == Init /\ [][PitchNext]_vars

\* A step that is a call of the operation `name`.
IsCall(name) == last'.seq # last.seq /\ last'.name = name

\* The fields of trackPlayer after and before a step.
FieldsNow == Fields(Cur)
FieldsNext == Fields(Cur)'

\* The processes launched by this component that are in the process table.
AliveSpawned == { p \in spawned : p \in Pids /\ procs[p] # "free" }

\* spawned holds no process that has left the table.
SpawnedAlive == AliveSpawned = spawned

\* The entries of a call's trace that send a signal, and those that launch.
Signals(log) == SelectSeq(log, LAMBDA e : e.ev \in { "SIGTERM", "SIGKILL", "SIGSTOP", "SIGCONT" })
Launches(log) == SelectSeq(log, LAMBDA e : e.ev = "launch")


\* ------------------------------------------------------------- properties
SessionStarts == { "playTrack", "nextTrack", "prevTrack", "setVolume" }

ValidIndex(i, n) == 0 <= i /\ i < n

\* What does not belong to the component's fields is left alone by a step.
HostUnchanged == procs' = procs /\ nextPid' = nextPid /\ spawned' = spawned

\* The window of getFinished, in ticks.
Window == DebounceUnits * TicksPerUnit

\* C1: once a session-starting operation that launched a player has
\* completed, at most one process launched by the component is alive, and
\* none is alive without being the recorded (owned) one.
C1_NoLeakedProcess ==
  (last.name \in SessionStarts /\ Launches(last.log) # << >>)
    => /\ Cardinality(AliveSpawned) <= 1
       /\ AliveSpawned \subseteq { audioProcessPid }

\* C2: a getFinished call outside the debounce window with a recorded id
\* returns true and clears the id when the process has exited, and returns
\* false and keeps the id when it is still in the table.
C2_ReflectsLiveness ==
  [][ (IsCall("getFinished") /\ audioProcessPid > 0
         /\ ~(started /\ now - playStartTime < Window))
        => IF procs[audioProcessPid] = "free"
             THEN last'.ret = TRUE /\ audioProcessPid' = 0
             ELSE last'.ret = FALSE /\ audioProcessPid' = audioProcessPid ]_vars

\* C3: a getFinished call made less than one time unit after the start of a
\* session returns false and leaves the recorded id as it is, whatever the id
\* and whether or not the process is alive.
C3_DebounceReturnsFalse ==
  [][ (IsCall("getFinished") /\ started /\ now - playStartTime < Window)
        => /\ last'.ret = FALSE
           /\ audioProcessPid' = audioProcessPid ]_vars

\* A getFinished call inside the window returned false although the recorded
\* process had already exited.
C3_Witness ==
  /\ last.name = "getFinished" /\ last.ret = FALSE
  /\ now - playStartTime < Window
  /\ audioProcessPid > 0 /\ procs[audioProcessPid] = "free"

\* C4: the current track index is -1 or a valid index into the catalog.
C4_IndexInRange == whichTrack = -1 \/ ValidIndex(whichTrack, numTracks)

\* C5: playTrack with an index outside [0, numTracks), or with an empty
\* catalog, returns false, changes no field, sends no signal and launches
\* nothing.
C5_InvalidPlayIsNoOp ==
  [][ (IsCall("playTrack") /\ ~ValidIndex(last'.arg, numTracks))
        => /\ last'.ret = FALSE
           /\ FieldsNext = FieldsNow
           /\ last'.log = << >>
           /\ HostUnchanged ]_vars

\* playTrack failed with an index past the end while a session is recorded.
C5_Witness ==
  /\ last.name = "playTrack" /\ last.ret = FALSE
  /\ numTracks > 0 /\ last.arg >= numTracks
  /\ audioProcessPid > 0 /\ procs[audioProcessPid] = "running"

\* A call ended the session recorded before it and started one for `file`:
\* the recorded id, if any, got SIGTERM then SIGKILL and is gone, and exactly
\* one player was launched on `file`, after which the start time is the time
\* of the call and the session is not paused.
Replaced(file) ==
  /\ audioProcessPid > 0 =>
       /\ Len(last'.log) >= 2
       /\ last'.log[1] = Ev("SIGTERM", audioProcessPid)
       /\ last'.log[2] = Ev("SIGKILL", audioProcessPid)
       /\ procs'[audioProcessPid] = "free"
  /\ Len(Launches(last'.log)) = 1
  /\ Launches(last'.log)[1].file = file
  /\ Launches(last'.log)[1].pid \in spawned' \ spawned
  /\ playStartTime' = now
  /\ isPaused' = FALSE

C7_VolumeChangeRestarts ==
  [][ (IsCall("setVolume") /\ Clamp(last'.arg) # currentVolume
         /\ audioProcessPid > 0)
        => /\ currentVolume' = Clamp(last'.arg)
           /\ whichTrack' = whichTrack
           /\ Len(Launches(last'.log)) = 1
           /\ Launches(last'.log)[1].vol = Clamp(last'.arg)
           /\ ValidIndex(whichTrack, numTracks)
           /\ Replaced(DLIST[whichTrack + 1]) ]_vars

\* C8: setVolume with an unchanged value, or with no session recorded, only
\* stores the clamped value: every other field is unchanged, no signal is
\* sent and nothing is launched.
C8_VolumeNoRestart ==
  [][ (IsCall("setVolume")
         /\ (Clamp(last'.arg) = currentVolume \/ audioProcessPid <= 0))
        => /\ FieldsNext = [ FieldsNow EXCEPT !.currentVolume = Clamp(last'.arg) ]
           /\ last'.log = << >>
           /\ HostUnchanged ]_vars

\* setVolume was called with the stored value while a session was playing,
\* and did nothing.
C8_Witness ==
  /\ last.name = "setVolume" /\ last.log = << >>
  /\ Clamp(last.arg) = currentVolume
  /\ audioProcessPid > 0 /\ procs[audioProcessPid] = "running"
  /\ ValidIndex(whichTrack, numTracks)

\* C9: pause on a recorded, unpaused session sends one SIGSTOP to the
\* recorded id and keeps index and id; unPause called next sends one SIGCONT
\* to the same id, keeps index and id and leaves the flag false; neither
\* sends a terminate signal.
C9_PauseUnPause ==
  [][ /\ (IsCall("pause") /\ audioProcessPid > 0 /\ ~isPaused)
          => /\ last'.log = << Ev("SIGSTOP", audioProcessPid) >>
             /\ whichTrack' = whichTrack
             /\ audioProcessPid' = audioProcessPid
      /\ (IsCall("unPause") /\ last.name = "pause"
            /\ last.log = << Ev("SIGSTOP", audioProcessPid) >>)
          => /\ last'.log = << Ev("SIGCONT", audioProcessPid) >>
             /\ whichTrack' = whichTrack
             /\ audioProcessPid' = audioProcessPid
             /\ isPaused' = FALSE ]_vars

\* unPause resumed the session of a player this component launched.
C9_Witness ==
  /\ last.name = "unPause"
  /\ last.log = << Ev("SIGCONT", audioProcessPid) >>
  /\ ~isPaused
  /\ audioProcessPid \in AliveSpawned /\ procs[audioProcessPid] = "running"

\* C10: pause with no recorded id or while paused, and unPause with no
\* recorded id or while not paused, send no signal and change nothing.
C10_PauseNoOps ==
  [][ /\ (IsCall("pause") /\ (audioProcessPid <= 0 \/ isPaused))
          => last'.log = << >> /\ FieldsNext = FieldsNow /\ HostUnchanged
      /\ (IsCall("unPause") /\ (audioProcessPid <= 0 \/ ~isPaused))
          => last'.log = << >> /\ FieldsNext = FieldsNow /\ HostUnchanged ]_vars

\* pause was called while nothing was playing.
C10_Witness ==
  /\ last.name = "pause" /\ last.log = << >>
  /\ audioProcessPid = 0 /\ ~isPaused

\* The discovery step of a call found no process id.
Missed(log) ==
  /\ log # << >>
  /\ log[Len(log)] = Ev("pgrep", 0)

\* C11: when the discovery step of a spawn finds no id, playTrack still
\* returns true and the recorded id is zero; with no id recorded, pause,
\* unPause and stop send no signal and getFinished outside the window
\* returns true.
C11_DiscoveryMiss ==
  [][ /\ (\E n \in SessionStarts : IsCall(n)) /\ Missed(last'.log)
          => /\ audioProcessPid' = 0
             /\ last'.name = "playTrack" => last'.ret = TRUE
      /\ (audioProcessPid = 0
            /\ (IsCall("pause") \/ IsCall("unPause") \/ IsCall("stop")))
          => /\ last'.log = << >>
             /\ audioProcessPid' = 0
      /\ (audioProcessPid = 0 /\ IsCall("getFinished")
            /\ ~(started /\ now - playStartTime < Window))
          => last'.ret = TRUE ]_vars

\* playTrack ended a recorded session, launched a player, found no id and
\* returned true with no id recorded.
C11_Witness ==
  /\ last.name = "playTrack" /\ last.ret = TRUE
  /\ Missed(last.log)
  /\ last.log[1].ev = "SIGTERM"
  /\ audioProcessPid = 0
  /\ spawned # {}

\* C12: the stored volume starts at 80 and is always in [0,100]; setVolume(v)
\* leaves it at v clamped to [0,100], and no other operation changes it.
C12_VolumeRange ==
  /\ currentVolume = 80
  /\ [](currentVolume \in 0 .. 100)
  /\ [][ /\ IsCall("setVolume")
             => /\ last'.arg > 100 => currentVolume' = 100
                /\ last'.arg < 0 => currentVolume' = 0
                /\ last'.arg \in 0 .. 100 => currentVolume' = last'.arg
         /\ ~IsCall("setVolume") => currentVolume' = currentVolume ]_vars

\* setVolume(150) left the volume at 100.
C12_Witness ==
  /\ last.name = "setVolume" /\ last.arg = 150
  /\ currentVolume = 100

\* The files of a directory that loadTracks is to keep.
Playable(dir) == { f \in dir : f.ext \in { "mp3", "wav", "aiff", "m4a" } }

\* C13: loadTracks on a directory with N files of an allowed extension (and
\* any number of others) returns N, sets numTracks to N and replaces the
\* catalog by exactly those N files in sorted order; playTrack launches the
\* player only on a file of the catalog, and fails when N is 0.
C13_LoadTracks ==
  [][ /\ IsCall("loadTracks")
          => /\ last'.ret = Cardinality(Playable(last'.arg))
             /\ numTracks' = Cardinality(Playable(last'.arg))
             /\ Len(DLIST') = numTracks'
             /\ { DLIST'[i] : i \in 1 .. Len(DLIST') } = Playable(last'.arg)
             /\ \A i, j \in 1 .. Len(DLIST') :
                  i < j => DLIST'[i].name < DLIST'[j].name
      /\ IsCall("playTrack")
          => /\ numTracks = 0 => last'.ret = FALSE
             /\ \A i \in 1 .. Len(last'.log) :
                  last'.log[i].ev = "launch"
                    => /\ last'.log[i].file \in { DLIST[k] : k \in 1 .. Len(DLIST) }
                       /\ last'.log[i].file.ext \in { "mp3", "wav", "aiff", "m4a" }
    ]_vars

\* loadTracks on a directory of three playable files and one other returned
\* 3 and left the three in path order.
C13_Witness ==
  /\ last.name = "loadTracks" /\ last.ret = 3
  /\ Cardinality(last.arg) = 4
  /\ numTracks = 3
  /\ << DLIST[1].name, DLIST[2].name, DLIST[3].name >> = << 1, 3, 4 >>

\* C14: setPitch, updatePitch and shiftPos change no field but currentPitch
\* (so not the recorded id, the index, the volume, the paused flag or the
\* start time), send no signal and launch nothing.
C14_PitchInert ==
  [][ (IsCall("setPitch") \/ IsCall("updatePitch") \/ IsCall("shiftPos"))
        => /\ FieldsNext = [ FieldsNow EXCEPT !.currentPitch = currentPitch' ]
           /\ last'.log = << >>
           /\ HostUnchanged ]_vars

\* setPitch stored a new pitch while a session was playing.
C14_Witness ==
  /\ last.name = "setPitch" /\ last.arg = 50 /\ currentPitch = 50
  /\ audioProcessPid > 0 /\ procs[audioProcessPid] = "running"
  /\ ~isPaused

\* The trace of one terminate of the process id p.
Terminate(p) == << Ev("SIGTERM", p), Ev("SIGKILL", p), Ev("waitpid", p) >>

\* A step that is a call of a session-starting operation and launches a player.
IsSpawn ==
  /\ \E n \in SessionStarts : IsCall(n)
  /\ Launches(last'.log) # << >>

\* C15: with an id recorded, stop and the destructor send SIGTERM, then
\* SIGKILL, then reap once, all to that id, and leave the recorded id zero
\* (whether or not the process was still there); a spawn starts with the
\* same three steps; a stop with no id recorded, as a second stop is, sends
\* nothing and changes nothing.
C15_Terminate ==
  [][ /\ ((IsCall("stop") \/ IsCall("~trackPlayer")) /\ audioProcessPid > 0)
          => /\ last'.log = Terminate(audioProcessPid)
             /\ audioProcessPid' = 0
      /\ (IsSpawn /\ audioProcessPid > 0)
          => /\ Len(last'.log) >= 3
             /\ SubSeq(last'.log, 1, 3) = Terminate(audioProcessPid)
      /\ (IsCall("stop") /\ (audioProcessPid <= 0 \/ last.name = "stop"))
          => /\ last'.log = << >>
             /\ FieldsNext = FieldsNow
             /\ HostUnchanged ]_vars

\* stop terminated a recorded process.
C15_Witness ==
  /\ last.name = "stop" /\ Len(last.log) = 3
  /\ last.log = Terminate(last.log[1].pid)
  /\ last.log[1].pid > 0
  /\ audioProcessPid = 0

\* C16: a spawn terminates the recorded id (if any), then records the start
\* time, then launches the player, then runs the discovery step, which may
\* record a new id; at the launch no id is recorded.
C16_SpawnOrder ==
  [][ IsSpawn
        => LET k   == IF audioProcessPid > 0 THEN 3 ELSE 0
               log == last'.log
           IN  /\ Len(log) = k + 4
               /\ k = 3 => SubSeq(log, 1, 3) = Terminate(audioProcessPid)
               /\ log[k + 1].ev = "stamp"
               /\ log[k + 2] = Ev("owns", 0)
               /\ log[k + 3].ev = "launch"
               /\ log[k + 4].ev = "pgrep"
               /\ playStartTime' = now
               /\ audioProcessPid' = log[k + 4].pid ]_vars

\* A session-starting call terminated a recorded process, stamped, launched
\* with no id recorded, and discovered the id it now records.
C16_Witness ==
  /\ last.name \in SessionStarts /\ Len(last.log) = 7
  /\ last.log[1].ev = "SIGTERM"
  /\ last.log[5] = Ev("owns", 0)
  /\ last.log[7] = Ev("pgrep", audioProcessPid)
  /\ audioProcessPid > 0

\* The entries of a trace that name a process: signals and reaps.
Addressed == { "SIGTERM", "SIGKILL", "SIGSTOP", "SIGCONT", "waitpid" }

\* C17: every signal sent and every reap made by a call names the process id
\* recorded when the call began, and that id is strictly positive.
C17_SignalsToRecordedPid ==
  [][ last'.seq # last.seq
        => \A i \in 1 .. Len(last'.log) :
             last'.log[i].ev \in Addressed
               => /\ last'.log[i].pid = audioProcessPid
                  /\ audioProcessPid > 0 ]_vars

\* getFinished reaped the recorded process id.
C17_Witness ==
  /\ last.name = "getFinished"
  /\ last.log = << Ev("waitpid", audioProcessPid) >>
  /\ audioProcessPid > 0

\* How many entries of a trace are the system call e.
Count(log, e) == Len(SelectSeq(log, LAMBDA x : x.ev = e))

\* C18: the paused flag agrees with the signals sent to the recorded
\* session.  A call that launches a player leaves the flag false and sends
\* no stop or continue signal; any other call sends at most one of them,
\* SIGSTOP only when the flag is false (making it true), SIGCONT only when
\* it is true (making it false), and otherwise leaves the flag of a session
\* that stays recorded as it is.  So the flag is true exactly when SIGSTOP
\* was the last of the two sent to the session, and the two alternate; and
\* the recorded process, while in the table, is stopped exactly when the
\* flag is true.
C18_PausedFlagAgrees ==
  /\ []((audioProcessPid > 0 /\ procs[audioProcessPid] # "free")
          => (isPaused <=> procs[audioProcessPid] = "stopped"))
  /\ [][ last'.seq # last.seq
           => LET log   == last'.log
                  stops == Count(log, "SIGSTOP")
                  conts == Count(log, "SIGCONT")
              IN  /\ stops + conts <= 1
                  /\ Launches(log) # << >>
                       => stops + conts = 0 /\ isPaused' = FALSE
                  /\ stops = 1
                       => /\ ~isPaused /\ isPaused'
                          /\ log = << Ev("SIGSTOP", audioProcessPid) >>
                          /\ audioProcessPid' = audioProcessPid
                  /\ conts = 1
                       => /\ isPaused /\ ~isPaused'
                          /\ log = << Ev("SIGCONT", audioProcessPid) >>
                          /\ audioProcessPid' = audioProcessPid
                  /\ (stops + conts = 0 /\ Launches(log) = << >>
                        /\ audioProcessPid' > 0)
                       => isPaused' = isPaused ]_vars

\* pause sent SIGSTOP to the recorded process, a player this object
\* launched: the flag is true and the process is stopped.
C18_Witness ==
  /\ last.name = "pause"
  /\ last.log = << Ev("SIGSTOP", audioProcessPid) >>
  /\ isPaused
  /\ audioProcessPid \in spawned /\ procs[audioProcessPid] = "stopped"

\* C19: setVolume with a changed value while a session is recorded and
\* paused terminates the paused process and starts a session of the same
\* track with the paused flag false.
C19_VolumeChangeEndsPause ==
  [][ (IsCall("setVolume") /\ Clamp(last'.arg) # currentVolume
         /\ audioProcessPid > 0 /\ isPaused)
        => /\ Len(last'.log) >= 3
           /\ SubSeq(last'.log, 1, 3) = Terminate(audioProcessPid)
           /\ Len(Launches(last'.log)) = 1
           /\ ValidIndex(whichTrack, numTracks)
           /\ Launches(last'.log)[1].file = DLIST[whichTrack + 1]
           /\ whichTrack' = whichTrack
           /\ isPaused' = FALSE ]_vars

\* The operations C20 is about.
PlaybackOps ==
  { "playTrack", "nextTrack", "prevTrack", "setVolume", "pause", "unPause",
    "getFinished", "stop" }

\* C20: with an empty catalog and no id recorded, a call of a playback
\* operation makes no system call (no launch, no signal), records no id and
\* leaves the process table as it is.
C20_EmptyCatalogInert ==
  [][ ((\E n \in PlaybackOps : IsCall(n))
         /\ numTracks = 0 /\ audioProcessPid = 0)
        => /\ last'.log = << >>
           /\ audioProcessPid' = 0
           /\ numTracks' = 0
           /\ HostUnchanged ]_vars

\* nextTrack was called on an empty catalog with nothing recorded.
C20_Witness ==
  /\ last.name = "nextTrack" /\ last.log = << >>
  /\ numTracks = 0 /\ audioProcessPid = 0
  /\ ~started

====
